---------------------------- MODULE Spec2Model ----------------------------
(***************************************************************************)
(* Kalman filter, RTS smoother, forward-filter/backward-sampler and EM     *)
(* E-step of pylds/lds_messages.pyx, modelled over a flat memory on which  *)
(* the BLAS/LAPACK kernels act exactly as the Cython code calls them.      *)
(*                                                                         *)
(* Arithmetic is exact real arithmetic (rounding of doubles is not         *)
(* modelled) extended with the IEEE special values NaN, +Inf and -Inf.     *)
(* A number is a finite sum of terms q * sqrt(k), q a non-zero rational    *)
(* and k a square-free positive integer, so that the Cholesky factors and  *)
(* everything computed from them are represented without loss.             *)
(***************************************************************************)
EXTENDS Integers, Sequences, FiniteSets, Bags, TLC

(***************************************************************************)
(* Numbers.  A term is <<k, n, d>> for (n/d)*sqrt(k) with d > 0,           *)
(* gcd(|n|, d) = 1, n # 0 and k square-free; a number is a set of terms    *)
(* with pairwise distinct k.  Zero is the empty set.  The key k = 0 marks  *)
(* the special values.                                                     *)
(***************************************************************************)
Abs(a) == IF a < 0 THEN -a ELSE a

RECURSIVE Gcd(_, _)
Gcd(a, b) == IF b = 0 THEN a ELSE Gcd(b, a % b)

Zero == {}
NaN == {<<0, 0, 0>>}
PInf == {<<0, 1, 0>>}
NInf == {<<0, -1, 0>>}
\* A value outside the represented field (a sum of surds where a sign or a
\* root would be needed).  No run of the model produces it (see NoBeyond).
Beyond == {<<0, 2, 0>>}

IsNaN(x) == x = NaN
IsInf(x) == x = PInf \/ x = NInf
IsSpecial(x) == \E t \in x : t[1] = 0
IsPure(x) == Cardinality(x) = 1 /\ ~IsSpecial(x)

\* (n/d) sqrt(k), d > 0, in lowest terms: no term when n = 0.
Reduced(k, n, d) ==
    IF n = 0 THEN {} ELSE {<<k, n \div g, d \div g>> : g \in {Gcd(Abs(n), d)}}

\* The rational n/d (d # 0) as a number.
Rat(n, d) == IF d < 0 THEN Reduced(1, -n, -d) ELSE Reduced(1, n, d)

Num(i) == Rat(i, 1)
One == Num(1)
NegOne == Num(-1)

Keys(x) == {t[1] : t \in x}
TermCoef(t) == <<t[2], t[3]>>
Coef(x, k) ==
    IF \E t \in x : t[1] = k THEN TermCoef(CHOOSE u \in x : u[1] = k) ELSE <<0, 1>>

\* a[1]/a[2] + b[1]/b[2] over the least common denominator, for key k.
AddOver(k, a, b, c) ==
    Reduced(k, a[1] * (b[2] \div c) + b[1] * (a[2] \div c), (a[2] \div c) * b[2])

AddTerms(k, a, b) == AddOver(k, a, b, Gcd(a[2], b[2]))

\* The sum of two finite numbers, key by key.
AddFin(x, y) ==
    IF x = Zero THEN y
    ELSE IF y = Zero THEN x
    ELSE UNION {AddTerms(k, Coef(x, k), Coef(y, k)) : k \in Keys(x) \cup Keys(y)}

\* -1, 0, 1 for a number whose sign is decided by one coefficient.
Sign(x) ==
    IF x = Zero THEN 0
    ELSE LET t == CHOOSE u \in x : TRUE IN IF t[2] < 0 THEN -1 ELSE 1

SignKnown(x) == x = Zero \/ IsInf(x) \/ IsPure(x)

Add(x, y) ==
    IF IsNaN(x) \/ IsNaN(y) THEN NaN
    ELSE IF x = Beyond \/ y = Beyond THEN Beyond
    ELSE IF IsInf(x) /\ IsInf(y) THEN (IF x = y THEN x ELSE NaN)
    ELSE IF IsInf(x) THEN x
    ELSE IF IsInf(y) THEN y
    ELSE AddFin(x, y)

Neg(x) ==
    IF IsNaN(x) \/ x = Beyond THEN x
    ELSE IF x = PInf THEN NInf
    ELSE IF x = NInf THEN PInf
    ELSE {<<t[1], -t[2], t[3]>> : t \in x}

Sub(x, y) == Add(x, Neg(y))

\* (n1/d1) sqrt(k1) * (n2/d2) sqrt(k2), with g = gcd(k1, k2):
\* sqrt(k1) sqrt(k2) = g * sqrt((k1/g) * (k2/g)).
\* The numerators and denominators are cancelled crosswise (c1, c2) before
\* they are multiplied.
MulCross(a, b, g, c1, c2) ==
    {<<(a[1] \div g) * (b[1] \div g),
       (g \div c3) * ((a[2] \div c1) * (b[2] \div c2)),
       ((a[3] \div c2) * (b[3] \div c1)) \div c3>> :
          c3 \in {Gcd(g, (a[3] \div c2) * (b[3] \div c1))}}

MulTerm(a, b) ==
    MulCross(a, b, Gcd(a[1], b[1]), Gcd(Abs(a[2]), b[3]), Gcd(Abs(b[2]), a[3]))

RECURSIVE SumProducts(_)
SumProductsFrom(P, e) == AddFin(MulTerm(e[1], e[2]), SumProducts(P \ {e}))

SumProducts(P) == IF P = {} THEN Zero ELSE SumProductsFrom(P, CHOOSE f \in P : TRUE)

\* The product of two finite numbers, term by term.
MulFin(x, y) ==
    IF x = Zero \/ y = Zero THEN Zero
    ELSE IF x = One THEN y
    ELSE IF y = One THEN x
    ELSE SumProducts(x \X y)

Mul(x, y) ==
    IF IsNaN(x) \/ IsNaN(y) THEN NaN
    ELSE IF x = Beyond \/ y = Beyond THEN Beyond
    ELSE IF IsInf(x) \/ IsInf(y)
         THEN IF x = Zero \/ y = Zero THEN NaN
              ELSE IF ~SignKnown(x) \/ ~SignKnown(y) THEN Beyond
              ELSE IF Sign(x) * Sign(y) > 0 THEN PInf ELSE NInf
    ELSE MulFin(x, y)

\* 1 / ((n/d) sqrt(k)) = (d / (n k)) sqrt(k)
InvTerm(t) == Reduced(t[1], (IF t[2] < 0 THEN -1 ELSE 1) * t[3], Abs(t[2]) * t[1])

\* IEEE division: x/0 is NaN for x = 0 and an infinity otherwise.
Div(x, y) ==
    IF IsNaN(x) \/ IsNaN(y) THEN NaN
    ELSE IF x = Beyond \/ y = Beyond THEN Beyond
    ELSE IF y = Zero
         THEN IF x = Zero THEN NaN
              ELSE IF ~SignKnown(x) THEN Beyond
              ELSE IF Sign(x) > 0 THEN PInf ELSE NInf
    ELSE IF IsInf(y) THEN (IF IsInf(x) THEN NaN ELSE Zero)
    ELSE IF ~IsPure(y) THEN Beyond
    ELSE IF IsInf(x) THEN (IF Sign(x) * Sign(y) > 0 THEN PInf ELSE NInf)
    ELSE MulFin(x, InvTerm(CHOOSE t \in y : TRUE))

\* The largest s with s*s dividing m, searched from factor f upwards.
RECURSIVE SqPartFrom(_, _)
SqPartFrom(m, f) ==
    IF f * f > m THEN 1
    ELSE IF m % (f * f) = 0 THEN f * SqPartFrom(m \div (f * f), f)
    ELSE SqPartFrom(m, f + 1)

\* sqrt of a positive rational n/d: sqrt(n d) / d with the square part of
\* n d taken out of the root.
SqrtOver(m, d, s) == {<<m \div (s * s), s \div g, d \div g>> : g \in {Gcd(s, d)}}

SqrtTerm(t) == SqrtOver(t[2] * t[3], t[3], SqPartFrom(t[2] * t[3], 2))

Sqrt(x) ==
    IF IsNaN(x) \/ x = PInf THEN x
    ELSE IF ~(IsPure(x) /\ Keys(x) = {1} /\ Sign(x) > 0) THEN Beyond
    ELSE SqrtTerm(CHOOSE u \in x : TRUE)

\* x <= 0 or x is NaN: the test LAPACK's dpotrf applies to a pivot.
NotPositive(x) == IsNaN(x) \/ (SignKnown(x) /\ Sign(x) <= 0)

(***************************************************************************)
(* The log-likelihood accumulator.  A value of condition_on's ll is        *)
(*   fin - pi * (1/2) log(2 PI) - sum of log(v) over the bag logs,         *)
(* with fin a number; when fin is special the rest is absorbed.            *)
(***************************************************************************)
LLOf(v) ==
    [fin |-> v, pi |-> 0, logs |-> EmptyBag]

LLZero == LLOf(Zero)

LLCanon(l) == IF IsSpecial(l.fin) THEN LLOf(l.fin) ELSE l

LLAdd(a, b) ==
    LLCanon([fin |-> Add(a.fin, b.fin), pi |-> a.pi + b.pi,
             logs |-> a.logs (+) b.logs])

\* ll -= p/2. * log(2.*PI)
LLSubLog2Pi(l, p) == LLCanon([l EXCEPT !.pi = @ + p])

\* ll -= log(v): log(0) = -inf, log of a negative number or of NaN is NaN.
LLSubLog(l, v) ==
    IF IsNaN(v) THEN LLOf(NaN)
    ELSE IF v = Zero THEN LLCanon([l EXCEPT !.fin = Add(@, PInf)])
    ELSE IF v = PInf THEN LLCanon([l EXCEPT !.fin = Add(@, NInf)])
    ELSE IF ~SignKnown(v) THEN LLOf(Beyond)
    ELSE IF Sign(v) < 0 THEN LLOf(NaN)
    ELSE IF v = One THEN l
    ELSE LLCanon([l EXCEPT !.logs = @ (+) SetToBag({v})])

(***************************************************************************)
(* Memory.  A buffer is a flat sequence of numbers; a pointer <<b, o>> is  *)
(* buffer b at element offset o (0-based).  The state of the memory is a   *)
(* function from buffer names to buffers.                                  *)
(***************************************************************************)
Ptr(b, o) == <<b, o>>

Rd(m, ptr, i) == m[ptr[1]][ptr[2] + i + 1]

\* The memory with W[o] stored at offset o of ptr, for every o in DOMAIN W.
Store(m, ptr, W) ==
    [m EXCEPT ![ptr[1]] =
        SubSeq([j \in 1..Len(@) |->
                   IF (j - 1 - ptr[2]) \in DOMAIN W THEN W[j - 1 - ptr[2]] ELSE @[j]],
               1, Len(@))]

\* Element (i, j), 0-based, of the column-major matrix at a with leading
\* dimension lda: what BLAS and LAPACK read.
At(m, a, lda, i, j) == Rd(m, a, i + j * lda)

RECURSIVE SumFn(_, _, _)
SumFn(f, lo, hi) == IF lo > hi THEN Zero ELSE Add(f[lo], SumFn(f, lo + 1, hi))

(***************************************************************************)
(* BLAS.  Every kernel takes the memory and returns the memory after it.   *)
(***************************************************************************)
\* y := x
Dcopy(m, n, xp, incx, yp, incy) ==
    Store(m, yp, [o \in {i * incy : i \in 0..n-1} |-> Rd(m, xp, (o \div incy) * incx)])

\* y := alpha x + y
Daxpy(m, n, alpha, xp, incx, yp, incy) ==
    Store(m, yp, [o \in {i * incy : i \in 0..n-1} |->
        Add(Mul(alpha, Rd(m, xp, (o \div incy) * incx)), Rd(m, yp, o))])

\* alpha s + beta y; y is not read when beta = 0.
Axpby(alpha, s, beta, y) ==
    IF beta = Zero THEN Mul(alpha, s) ELSE Add(Mul(alpha, s), Mul(beta, y))

\* y := alpha op(A) x + beta y, A is M x N; y is not read when beta = 0.
Dgemv(m, trans, M, N, alpha, a, lda, xp, incx, beta, yp, incy) ==
    LET leny == IF trans = "N" THEN M ELSE N
        lenx == IF trans = "N" THEN N ELSE M
        opA(i, l) == IF trans = "N" THEN At(m, a, lda, i, l) ELSE At(m, a, lda, l, i)
        val(i) ==
            Axpby(alpha, SumFn([l \in 0..lenx-1 |-> Mul(opA(i, l), Rd(m, xp, l * incx))],
                               0, lenx - 1),
                  beta, Rd(m, yp, i * incy))
    IN  Store(m, yp, [o \in {i * incy : i \in 0..leny-1} |-> val(o \div incy)])

\* C := alpha op(A) op(B) + beta C, op(A) is M x K, op(B) is K x N;
\* C is not read when beta = 0.
Dgemm(m, ta, tb, M, N, K, alpha, a, lda, b, ldb, beta, c, ldc) ==
    LET opA(i, l) == IF ta = "N" THEN At(m, a, lda, i, l) ELSE At(m, a, lda, l, i)
        opB(l, j) == IF tb = "N" THEN At(m, b, ldb, l, j) ELSE At(m, b, ldb, j, l)
        val(i, j) ==
            Axpby(alpha, SumFn([l \in 0..K-1 |-> Mul(opA(i, l), opB(l, j))], 0, K - 1),
                  beta, At(m, c, ldc, i, j))
    IN  Store(m, c, [o \in {i + j * ldc : i \in 0..M-1, j \in 0..N-1} |->
                        val(o % ldc, o \div ldc)])

\* A := alpha x y^T + A, A is M x N
Dger(m, M, N, alpha, xp, incx, yp, incy, a, lda) ==
    Store(m, a, [o \in {i + j * lda : i \in 0..M-1, j \in 0..N-1} |->
        Add(Mul(alpha, Mul(Rd(m, xp, (o % lda) * incx), Rd(m, yp, (o \div lda) * incy))),
            Rd(m, a, o))])

\* dnrm2(x)**2: the squared Euclidean norm (the root and the square cancel
\* in exact arithmetic).
Dnrm2Sq(m, n, xp, incx) ==
    SumFn([i \in 0..n-1 |-> Mul(Rd(m, xp, i * incx), Rd(m, xp, i * incx))], 0, n - 1)

\* x := L x for the lower triangle L of A (uplo 'L', trans 'N', diag 'N')
Dtrmv(m, n, a, lda, xp, incx) ==
    Store(m, xp, [o \in {i * incx : i \in 0..n-1} |->
        SumFn([j \in 0..(o \div incx) |->
                  Mul(At(m, a, lda, o \div incx, j), Rd(m, xp, j * incx))],
              0, o \div incx)])

(***************************************************************************)
(* LAPACK.  dpotrf and dtrtrs return the memory and the status info.       *)
(***************************************************************************)
\* Column j of the lower Cholesky factorisation, columns 0..j-1 done.
RECURSIVE PotrfFrom(_, _, _, _, _)
\* A(i, j) less the products of the columns done, for i >= j.
PotrfRest(m, a, lda, i, j) ==
    Sub(At(m, a, lda, i, j),
        SumFn([k \in 0..j-1 |-> Mul(At(m, a, lda, i, k), At(m, a, lda, j, k))], 0, j - 1))

\* Column j with the root r of its pivot.
PotrfScale(m, n, a, lda, j, r) ==
    PotrfFrom(Store(m, a, [o \in {i + j * lda : i \in j..n-1} |->
                              IF o % lda = j THEN r
                              ELSE Div(PotrfRest(m, a, lda, o % lda, j), r)]),
              n, a, lda, j + 1)

\* Column j with its pivot ajj.
PotrfPivot(m, n, a, lda, j, ajj) ==
    IF NotPositive(ajj)
    THEN [mem |-> Store(m, a, (j + j * lda) :> ajj), info |-> j + 1]
    ELSE PotrfScale(m, n, a, lda, j, Sqrt(ajj))

PotrfFrom(m, n, a, lda, j) ==
    IF j >= n THEN [mem |-> m, info |-> 0]
    ELSE PotrfPivot(m, n, a, lda, j, PotrfRest(m, a, lda, j, j))

\* dpotrf('L', n, A, lda, info): A = L L^T, L in the lower triangle; info = j
\* when the leading minor of order j is not positive definite, and the
\* factorisation stops there.
Dpotrf(m, n, a, lda) == PotrfFrom(m, n, a, lda, 0)

\* Solve L x = b (trans "N") or L^T x = b (trans "T") for one column b
\* (a function on 0..n-1), L the lower triangle of A.
SolveCol(m, trans, n, a, lda, b) ==
    LET fwd[k \in 0..n-1] ==
            Div(Sub(b[k], SumFn([i \in 0..k-1 |-> Mul(At(m, a, lda, k, i), fwd[i])],
                                0, k - 1)),
                At(m, a, lda, k, k))
        bwd[k \in 0..n-1] ==
            Div(Sub(b[k], SumFn([i \in k+1..n-1 |-> Mul(At(m, a, lda, i, k), bwd[i])],
                                k + 1, n - 1)),
                At(m, a, lda, k, k))
    IN  IF trans = "N" THEN fwd ELSE bwd

\* dtrsm('L', 'L', trans, 'N', n, nrhs, 1, A, lda, B, ldb): B := op(L)^-1 B
Dtrsm(m, trans, n, nrhs, a, lda, b, ldb) ==
    LET col(j) == SolveCol(m, trans, n, a, lda, [i \in 0..n-1 |-> At(m, b, ldb, i, j)])
        sol == SubSeq([j \in 1..nrhs |-> SubSeq([i \in 1..n |-> col(j - 1)[i - 1]], 1, n)],
                      1, nrhs)
    IN  Store(m, b, [o \in {i + j * ldb : i \in 0..n-1, j \in 0..nrhs-1} |->
                        sol[(o \div ldb) + 1][(o % ldb) + 1]])

\* dtrtrs('L', trans, 'N', n, nrhs, A, lda, B, ldb, info): returns info = i
\* without solving when the i-th diagonal element is exactly zero.
Dtrtrs(m, trans, n, nrhs, a, lda, b, ldb) ==
    IF \E i \in 0..n-1 : At(m, a, lda, i, i) = Zero
    THEN [mem |-> m,
          info |-> 1 + CHOOSE i \in 0..n-1 :
                          /\ At(m, a, lda, i, i) = Zero
                          /\ \A k \in 0..i-1 : At(m, a, lda, k, k) # Zero]
    ELSE [mem |-> Dtrsm(m, trans, n, nrhs, a, lda, b, ldb), info |-> 0]

\* dpotrs('L', n, nrhs, A, lda, B, ldb, info): B := (L L^T)^-1 B, by two
\* triangular solves; the diagonal is not tested.
Dpotrs(m, n, nrhs, a, lda, b, ldb) ==
    Dtrsm(Dtrsm(m, "N", n, nrhs, a, lda, b, ldb), "T", n, nrhs, a, lda, b, ldb)


(***************************************************************************)
(* The primitives of lds_messages.pyx.  Each takes the memory and the      *)
(* pointers the Cython code passes (&v[0], &M[0,0]) and returns the memory *)
(* after the call with what the call returns.  potrf is the info that      *)
(* dpotrf reported, info the value the local variable info ends with.      *)
(***************************************************************************)
\* for i in range(p): ll -= log(temp_pp[i,i])
RECURSIVE SubLogDiag(_, _, _, _, _)
SubLogDiag(l, m, temp_pp, p, i) ==
    IF i >= p THEN l
    ELSE SubLogDiag(LLSubLog(l, Rd(m, temp_pp, i + i * p)), m, temp_pp, p, i + 1)

\* Mutant: an observation with a NaN in any coordinate counts as missing.
IsMissingAnywhere(m, y, p) == \E i \in 0..p - 1 : IsNaN(Rd(m, y, i))

\* y[0] != y[0]
IsMissing(m, y, p) == IsNaN(Rd(m, y, 0))

\* Mutant: the gain term is written over mu_cond and the prior mean is
\* added to it afterwards.
MeanUpdateOverwriting(m, p, n, mu_x, temp_pn, temp_p, mu_cond) ==
    LET m1 == Dgemv(m, "T", p, n, One, temp_pn, p, temp_p, 1, Zero, mu_cond, 1)
    IN  Daxpy(m1, n, One, mu_x, 1, mu_cond, 1)

\* if (&mu_x[0] != &mu_cond[0]): dcopy(mu_x, mu_cond); then mu_cond is
\* increased by the gain term.
MeanUpdate(m, p, n, mu_x, temp_pn, temp_p, mu_cond) ==
    LET m1 == IF mu_x # mu_cond THEN Dcopy(m, n, mu_x, 1, mu_cond, 1) ELSE m
    IN  Dgemv(m1, "T", p, n, One, temp_pn, p, temp_p, 1, One, mu_cond, 1)

\* dgemm, dcopy, dgemm, dpotrf: temp_pn = C sigma_x, temp_pp = the factor of
\* C sigma_x C' + sigma_obs.
Factor(m, a) ==
    LET m1 == Dgemm(m, "T", "N", a.p, a.n, a.n, One, a.C, a.n, a.sigma_x, a.n,
                    Zero, a.temp_pn, a.p)
        m2 == Dcopy(m1, a.p * a.p, a.sigma_obs, 1, a.temp_pp, 1)
        m3 == Dgemm(m2, "N", "N", a.p, a.p, a.n, One, a.temp_pn, a.p, a.C, a.n,
                    One, a.temp_pp, a.p)
    IN  Dpotrf(m3, a.p, a.temp_pp, a.p)

\* dcopy, dgemv, dtrtrs: temp_p = L^-1 (y - C mu_x)
Whiten(m, a) ==
    LET m4 == Dcopy(m, a.p, a.y, 1, a.temp_p, 1)
        m5 == Dgemv(m4, "T", a.n, a.p, NegOne, a.C, a.n, a.mu_x, 1, One, a.temp_p, 1)
    IN  Dtrtrs(m5, "N", a.p, 1, a.temp_pp, a.p, a.temp_p, a.p)

\* ll = (-1./2) * dnrm2(&p, &temp_p[0], &inc)**2
HalfNorm(m, a) == LLOf(Mul(Rat(-1, 2), Dnrm2Sq(m, a.p, a.temp_p, 1)))

\* dtrtrs, the mean update, dtrtrs: temp_pn = L^-1 C sigma_x
Solve(m, a) ==
    LET s2 == Dtrtrs(m, "T", a.p, 1, a.temp_pp, a.p, a.temp_p, a.p)
        m7 == MeanUpdate(s2.mem, a.p, a.n, a.mu_x, a.temp_pn, a.temp_p, a.mu_cond)
    IN  Dtrtrs(m7, "N", a.p, a.n, a.temp_pp, a.p, a.temp_pn, a.p)

\* if (&sigma_x[0,0] != &sigma_cond[0,0]): dcopy; dgemm
Downdate(m, a) ==
    LET m8 == IF a.sigma_x # a.sigma_cond
              THEN Dcopy(m, a.n * a.n, a.sigma_x, 1, a.sigma_cond, 1)
              ELSE m
    IN  Dgemm(m8, "T", "N", a.n, a.n, a.p, NegOne, a.temp_pn, a.p, a.temp_pn, a.p,
              One, a.sigma_cond, a.n)

\* What the update returns: f is what dpotrf left, l0 the ll of the norm, s3
\* what the last dtrtrs left and m9 the memory at the end.
Updated(f, l0, s3, m9, a) ==
    [mem    |-> m9,
     ll     |-> SubLogDiag(LLSubLog2Pi(l0, a.p), m9, a.temp_pp, a.p, 0),
     info   |-> s3.info,
     potrf  |-> f.info,
     branch |-> "update"]

UpdateSolved(f, l0, s3, a) == Updated(f, l0, s3, Downdate(s3.mem, a), a)

UpdateWhitened(f, s1, a) == UpdateSolved(f, HalfNorm(s1.mem, a), Solve(s1.mem, a), a)

UpdateFactored(f, a) == UpdateWhitened(f, Whiten(f.mem, a), a)

\* The else branch of condition_on, on the record a of its arguments.
Update(m, a) == UpdateFactored(Factor(m, a), a)

\* p and n are C.shape[0] and C.shape[1].
condition_on(m, mu_x, sigma_x, C, p, n, sigma_obs, y, mu_cond, sigma_cond, temp_p, temp_pn, temp_pp) ==
    IF IsMissing(m, y, p)
    THEN [mem    |-> Dcopy(Dcopy(m, n, mu_x, 1, mu_cond, 1),
                           n * n, sigma_x, 1, sigma_cond, 1),
          ll     |-> LLZero,
          info   |-> 0,
          potrf  |-> 0,
          branch |-> "missing"]
    ELSE Update(m, [mu_x |-> mu_x, sigma_x |-> sigma_x, C |-> C, p |-> p, n |-> n,
                    sigma_obs |-> sigma_obs, y |-> y, mu_cond |-> mu_cond,
                    sigma_cond |-> sigma_cond, temp_p |-> temp_p, temp_pn |-> temp_pn,
                    temp_pp |-> temp_pp])

\* n is mu.shape[0].
predict(m, mu, n, sigma, A, sigma_states, mu_predict, sigma_predict, temp_nn) ==
    LET m1 == Dgemv(m, "T", n, n, One, A, n, mu, 1, Zero, mu_predict, 1)
        m2 == Dgemm(m1, "T", "N", n, n, n, One, A, n, sigma, n, Zero, temp_nn, n)
        m3 == Dcopy(m2, n * n, sigma_states, 1, sigma_predict, 1)
    IN  Dgemm(m3, "N", "N", n, n, n, One, temp_nn, n, A, n, One, sigma_predict, n)

\* dtrmv, daxpy on what dpotrf left.
Scaled(f, mu, n, sigma, randvec) ==
    [mem   |-> Daxpy(Dtrmv(f.mem, n, sigma, n, randvec, 1), n, One, mu, 1, randvec, 1),
     potrf |-> f.info]

\* n is mu.shape[0].
sample_gaussian(m, mu, n, sigma, randvec) ==
    Scaled(Dpotrf(m, n, sigma, n), mu, n, sigma, randvec)

\* dgemm, dcopy, dpotrf: temp_nn = A filtered_sigma, temp_nn2 = the factor of
\* next_predict_sigma.
RtsFactor(m, A, n, filtered_sigma, next_predict_sigma, temp_nn, temp_nn2) ==
    LET m1 == Dgemm(m, "T", "N", n, n, n, One, A, n, filtered_sigma, n, Zero, temp_nn, n)
        m2 == Dcopy(m1, n * n, next_predict_sigma, 1, temp_nn2, 1)
    IN  Dpotrf(m2, n, temp_nn2, n)

\* dpotrs and the updates of the mean and of the covariance, on what dpotrf
\* left.
RtsUpdate(f, n, filtered_mu, filtered_sigma, next_predict_mu, next_predict_sigma, next_smoothed_mu, next_smoothed_sigma, temp_nn, temp_nn2) ==
    LET m3 == Dpotrs(f.mem, n, n, temp_nn2, n, temp_nn, n)
        m4 == Daxpy(m3, n, NegOne, next_smoothed_mu, 1, next_predict_mu, 1)
        m5 == Dgemv(m4, "T", n, n, NegOne, temp_nn, n, next_predict_mu, 1,
                    One, filtered_mu, 1)
        m6 == Daxpy(m5, n * n, NegOne, next_smoothed_sigma, 1, next_predict_sigma, 1)
        m7 == Dgemm(m6, "N", "N", n, n, n, NegOne, next_predict_sigma, n, temp_nn, n,
                    Zero, temp_nn2, n)
    IN  [mem   |-> Dgemm(m7, "T", "N", n, n, n, One, temp_nn, n, temp_nn2, n,
                         One, filtered_sigma, n),
         potrf |-> f.info]

\* n is A.shape[0].  On exit temp_nn holds the RTS gain.
rts_backward_step(m, A, n, sigma_states, filtered_mu, filtered_sigma, next_predict_mu, next_predict_sigma, next_smoothed_mu, next_smoothed_sigma, temp_nn, temp_nn2) ==
    RtsUpdate(RtsFactor(m, A, n, filtered_sigma, next_predict_sigma, temp_nn, temp_nn2),
              n, filtered_mu, filtered_sigma, next_predict_mu, next_predict_sigma,
              next_smoothed_mu, next_smoothed_sigma, temp_nn, temp_nn2)

\* n is mk.shape[0].
set_dynamics_stats(m, mk, n, mkn, Pkns, GkT, ExxnT) ==
    LET m1 == Dgemm(m, "T", "N", n, n, n, One, GkT, n, Pkns, n, Zero, ExxnT, n)
    IN  Dger(m1, n, n, One, mk, 1, mkn, 1, ExxnT, n)


(***************************************************************************)
(* State.                                                                  *)
(*   mem    the memory: the caller's arrays mu_init, sigma_init, A,        *)
(*          sigma_states, C, sigma_obs, data (C order), and during a call  *)
(*          the arrays the routine allocates, under their variable names   *)
(*   shape  the shapes of the caller's C and data                          *)
(*   junk   what freshly allocated (np.empty) memory holds                 *)
(*   randn  the values np.random.randn hands out                           *)
(*   todo   the routines the caller has still to call, in order            *)
(*   pc, dim, t, ll   the running routine: its loop, its T, p, n, its loop *)
(*          variable and its accumulator                                   *)
(*   ret    what each finished call returned                               *)
(*   given  the caller's arrays as they were before the first call         *)
(*   hist   the primitive calls of the running routine, in order           *)
(***************************************************************************)
VARIABLES mem, shape, junk, randn, todo, pc, dim, t, ll, ret, given, hist

vars == <<mem, shape, junk, randn, todo, pc, dim, t, ll, ret, given, hist>>

InputNames == {"mu_init", "sigma_init", "A", "sigma_states", "C", "sigma_obs", "data"}

\* np.empty(len): fresh memory holding whatever was there.
Alloc(m, name, len) == (name :> [i \in 1..len |-> junk]) @@ m

\* np.copy(src): fresh memory holding the values of src.
AllocCopy(m, name, src) == (name :> m[src]) @@ m

\* What is left when the routine's arrays go out of scope.
Release(m) == [b \in InputNames |-> m[b]]

\* dst[0] = src for a row dst[0] of length len: a memoryview copy.
AssignRow0(m, dst, src, len) == Dcopy(m, len, Ptr(src, 0), 1, Ptr(dst, 0), 1)

\* &M[t,0,0] of a C-contiguous array of rows x cols slices, and &v[t,0].
Slice(b, i, rows, cols) == Ptr(b, i * rows * cols)
Row(b, i, len) == Ptr(b, i * len)

\* One entry of hist.
Event(op, i, potrf, val) == [op |-> op, t |-> i, potrf |-> potrf, val |-> val]

\* The values of len elements at a pointer.
Vals(m, ptr, len) == [i \in 1..len |-> Rd(m, ptr, i - 1)]

Result(name, l, arrays) ==
    [name |-> name, outcome |-> "returned", ll |-> l, arrays |-> arrays, hist |-> hist,
     randn |-> randn]

Return(name, l, arrays) ==
    /\ ret' = Append(ret, Result(name, l, arrays))
    /\ mem' = Release(mem)
    /\ todo' = Tail(todo)
    /\ pc' = "idle"
    /\ hist' = <<>>
    /\ UNCHANGED <<shape, junk, randn, dim, t, ll, given>>

Enter(name) ==
    /\ pc = "idle"
    /\ todo # <<>>
    /\ Head(todo) = name
    /\ dim' = [T |-> shape.C[1], p |-> shape.C[2], n |-> shape.C[3]]
    /\ t' = 0
    /\ ll' = LLZero
    /\ hist' = <<>>
    /\ UNCHANGED <<shape, junk, todo, ret, given>>

\* &data[t,0]: the row stride is that of data itself.
DataRow(i) == Row("data", i, shape.data[2])

(***************************************************************************)
(* The forward pass.  Each routine spells it out with its own arrays:      *)
(* prior holds the predicted belief for step i (one buffer in the filter   *)
(* and the sampler, row i of the saved predictions in the smoother and the *)
(* E-step), post the filtered belief.                                      *)
(***************************************************************************)
\* What a forward condition_on leaves in hist: its branch, what it returned
\* and the posterior it wrote.
Filtered(c, i, mu_cond, sigma_cond, n) ==
    Event("condition_on", i, c.potrf,
          [branch |-> c.branch, ll |-> c.ll,
           mu |-> Vals(c.mem, mu_cond, n), sigma |-> Vals(c.mem, sigma_cond, n * n)])

(***************************************************************************)
(* kalman_filter                                                           *)
(***************************************************************************)
\* Mutant: mu_predict is mu_init itself, not a copy of it.
KF_MuPredictUncopied == Ptr("mu_init", 0)

\* mu_predict = np.copy(mu_init), sigma_predict = np.copy(sigma_init)
KF_MuPredict == Ptr("mu_predict", 0)
KF_SigmaPredict == Ptr("sigma_predict", 0)

KF_Alloc(m, T, p, n) ==
    LET m1 == AllocCopy(m, "mu_predict", "mu_init")
        m2 == AllocCopy(m1, "sigma_predict", "sigma_init")
        m3 == Alloc(m2, "temp_pp", p * p)
        m4 == Alloc(m3, "temp_pn", p * n)
        m5 == Alloc(m4, "temp_p", p)
        m6 == Alloc(m5, "temp_nn", n * n)
        m7 == Alloc(m6, "filtered_mus", T * n)
    IN  Alloc(m7, "filtered_sigmas", T * n * n)

KF_Call ==
    /\ Enter("kalman_filter")
    /\ mem' = KF_Alloc(mem, shape.C[1], shape.C[2], shape.C[3])
    /\ pc' = "kf_forward"
    /\ UNCHANGED randn

KF_Condition(m, i, p, n) ==
    condition_on(m, KF_MuPredict, KF_SigmaPredict,
                 Slice("C", i, p, n), p, n, Slice("sigma_obs", i, p, p), DataRow(i),
                 Row("filtered_mus", i, n), Slice("filtered_sigmas", i, n, n),
                 Ptr("temp_p", 0), Ptr("temp_pn", 0), Ptr("temp_pp", 0))

KF_Predict(m, i, n) ==
    predict(m, Row("filtered_mus", i, n), n, Slice("filtered_sigmas", i, n, n),
            Slice("A", i, n, n), Slice("sigma_states", i, n, n),
            KF_MuPredict, KF_SigmaPredict, Ptr("temp_nn", 0))

\* ll += condition_on(...)
KF_Accumulate(l, c) == LLAdd(l, c)

KF_Forward ==
    /\ pc = "kf_forward"
    /\ t < dim.T
    /\ \E c \in {KF_Condition(mem, t, dim.p, dim.n)} :
           /\ ll' = KF_Accumulate(ll, c.ll)
           /\ mem' = KF_Predict(c.mem, t, dim.n)
           /\ hist' = Append(hist, Filtered(c, t, Row("filtered_mus", t, dim.n),
                                            Slice("filtered_sigmas", t, dim.n, dim.n), dim.n))
    /\ t' = t + 1
    /\ UNCHANGED <<shape, junk, randn, todo, pc, dim, ret, given>>

KF_Return ==
    /\ pc = "kf_forward"
    /\ t = dim.T
    /\ Return("kalman_filter", ll,
              [mus |-> mem["filtered_mus"], sigmas |-> mem["filtered_sigmas"]])

(***************************************************************************)
(* rts_smoother                                                            *)
(***************************************************************************)
RTS_Alloc(m, T, p, n) ==
    LET m1 == Alloc(m, "mu_predicts", (T + 1) * n)
        m2 == Alloc(m1, "sigma_predicts", (T + 1) * n * n)
        m3 == Alloc(m2, "temp_pp", p * p)
        m4 == Alloc(m3, "temp_pn", p * n)
        m5 == Alloc(m4, "temp_nn", n * n)
        m6 == Alloc(m5, "temp_nn2", n * n)
        m7 == Alloc(m6, "temp_p", p)
        m8 == Alloc(m7, "smoothed_mus", T * n)
        m9 == Alloc(m8, "smoothed_sigmas", T * n * n)
        \* mu_predicts[0] = mu_init; sigma_predicts[0] = sigma_init
    IN  AssignRow0(AssignRow0(m9, "mu_predicts", "mu_init", n),
                   "sigma_predicts", "sigma_init", n * n)

RTS_Call ==
    /\ Enter("rts_smoother")
    /\ mem' = RTS_Alloc(mem, shape.C[1], shape.C[2], shape.C[3])
    /\ pc' = "rts_forward"
    /\ UNCHANGED randn

RTS_Condition(m, i, p, n) ==
    condition_on(m, Row("mu_predicts", i, n), Slice("sigma_predicts", i, n, n),
                 Slice("C", i, p, n), p, n, Slice("sigma_obs", i, p, p), DataRow(i),
                 Row("smoothed_mus", i, n), Slice("smoothed_sigmas", i, n, n),
                 Ptr("temp_p", 0), Ptr("temp_pn", 0), Ptr("temp_pp", 0))

RTS_Predict(m, i, n) ==
    predict(m, Row("smoothed_mus", i, n), n, Slice("smoothed_sigmas", i, n, n),
            Slice("A", i, n, n), Slice("sigma_states", i, n, n),
            Row("mu_predicts", i + 1, n), Slice("sigma_predicts", i + 1, n, n),
            Ptr("temp_nn", 0))

\* ll += condition_on(...)
RTS_Accumulate(l, c) == LLAdd(l, c)

RTS_Forward ==
    /\ pc = "rts_forward"
    /\ t < dim.T
    /\ \E c \in {RTS_Condition(mem, t, dim.p, dim.n)} :
           /\ ll' = RTS_Accumulate(ll, c.ll)
           /\ mem' = RTS_Predict(c.mem, t, dim.n)
           /\ hist' = Append(hist, Filtered(c, t, Row("smoothed_mus", t, dim.n),
                                            Slice("smoothed_sigmas", t, dim.n, dim.n), dim.n))
    /\ t' = t + 1
    /\ UNCHANGED <<shape, junk, randn, todo, pc, dim, ret, given>>

\* The forward loop is over; for t in range(T-2,-1,-1) starts.
RTS_Turn ==
    /\ pc = "rts_forward"
    /\ t = dim.T
    /\ pc' = "rts_backward"
    /\ t' = dim.T - 2
    /\ UNCHANGED <<mem, shape, junk, randn, todo, dim, ll, ret, given, hist>>

\* Mutant: the backward step from t+1 to t takes the slices t+1.
RTS_BackstepNextSlice(m, i, n) ==
    rts_backward_step(m, Slice("A", i + 1, n, n), n, Slice("sigma_states", i + 1, n, n),
                      Row("smoothed_mus", i, n), Slice("smoothed_sigmas", i, n, n),
                      Row("mu_predicts", i + 1, n), Slice("sigma_predicts", i + 1, n, n),
                      Row("smoothed_mus", i + 1, n), Slice("smoothed_sigmas", i + 1, n, n),
                      Ptr("temp_nn", 0), Ptr("temp_nn2", 0))

\* Mutant: the beliefs at t and t+1 passed in each other's place.
RTS_BackstepSwapped(m, i, n) ==
    rts_backward_step(m, Slice("A", i, n, n), n, Slice("sigma_states", i, n, n),
                      Row("smoothed_mus", i + 1, n), Slice("smoothed_sigmas", i + 1, n, n),
                      Row("mu_predicts", i + 1, n), Slice("sigma_predicts", i + 1, n, n),
                      Row("smoothed_mus", i, n), Slice("smoothed_sigmas", i, n, n),
                      Ptr("temp_nn", 0), Ptr("temp_nn2", 0))

RTS_Backstep(m, i, n) ==
    rts_backward_step(m, Slice("A", i, n, n), n, Slice("sigma_states", i, n, n),
                      Row("smoothed_mus", i, n), Slice("smoothed_sigmas", i, n, n),
                      Row("mu_predicts", i + 1, n), Slice("sigma_predicts", i + 1, n, n),
                      Row("smoothed_mus", i + 1, n), Slice("smoothed_sigmas", i + 1, n, n),
                      Ptr("temp_nn", 0), Ptr("temp_nn2", 0))

\* What a backward step leaves in hist: the gain it left in temp_nn.
Smoothed(b, i, n) ==
    Event("rts_backward_step", i, b.potrf, [gain |-> Vals(b.mem, Ptr("temp_nn", 0), n * n)])

RTS_Backward ==
    /\ pc = "rts_backward"
    /\ t >= 0
    /\ \E b \in {RTS_Backstep(mem, t, dim.n)} :
           /\ mem' = b.mem
           /\ hist' = Append(hist, Smoothed(b, t, dim.n))
    /\ t' = t - 1
    /\ UNCHANGED <<shape, junk, randn, todo, pc, dim, ll, ret, given>>

RTS_Return ==
    /\ pc = "rts_backward"
    /\ t < 0
    /\ Return("rts_smoother", ll,
              [mus |-> mem["smoothed_mus"], sigmas |-> mem["smoothed_sigmas"]])

(***************************************************************************)
(* E_step                                                                  *)
(***************************************************************************)
ES_Alloc(m, T, p, n) ==
    LET m1 == Alloc(m, "mu_predicts", (T + 1) * n)
        m2 == Alloc(m1, "sigma_predicts", (T + 1) * n * n)
        m3 == Alloc(m2, "temp_pp", p * p)
        m4 == Alloc(m3, "temp_pn", p * n)
        m5 == Alloc(m4, "temp_nn", n * n)
        m6 == Alloc(m5, "temp_nn2", n * n)
        m7 == Alloc(m6, "temp_p", p)
        m8 == Alloc(m7, "smoothed_mus", T * n)
        m9 == Alloc(m8, "smoothed_sigmas", T * n * n)
        m10 == Alloc(m9, "ExxnT", (T - 1) * n * n)
        \* mu_predicts[0] = mu_init; sigma_predicts[0] = sigma_init
    IN  AssignRow0(AssignRow0(m10, "mu_predicts", "mu_init", n),
                   "sigma_predicts", "sigma_init", n * n)

ES_Call ==
    /\ Enter("E_step")
    /\ mem' = ES_Alloc(mem, shape.C[1], shape.C[2], shape.C[3])
    /\ pc' = "es_forward"
    /\ UNCHANGED randn

ES_Condition(m, i, p, n) ==
    condition_on(m, Row("mu_predicts", i, n), Slice("sigma_predicts", i, n, n),
                 Slice("C", i, p, n), p, n, Slice("sigma_obs", i, p, p), DataRow(i),
                 Row("smoothed_mus", i, n), Slice("smoothed_sigmas", i, n, n),
                 Ptr("temp_p", 0), Ptr("temp_pn", 0), Ptr("temp_pp", 0))

ES_Predict(m, i, n) ==
    predict(m, Row("smoothed_mus", i, n), n, Slice("smoothed_sigmas", i, n, n),
            Slice("A", i, n, n), Slice("sigma_states", i, n, n),
            Row("mu_predicts", i + 1, n), Slice("sigma_predicts", i + 1, n, n),
            Ptr("temp_nn", 0))

\* ll += condition_on(...)
ES_Accumulate(l, c) == LLAdd(l, c)

ES_Forward ==
    /\ pc = "es_forward"
    /\ t < dim.T
    /\ \E c \in {ES_Condition(mem, t, dim.p, dim.n)} :
           /\ ll' = ES_Accumulate(ll, c.ll)
           /\ mem' = ES_Predict(c.mem, t, dim.n)
           /\ hist' = Append(hist, Filtered(c, t, Row("smoothed_mus", t, dim.n),
                                            Slice("smoothed_sigmas", t, dim.n, dim.n), dim.n))
    /\ t' = t + 1
    /\ UNCHANGED <<shape, junk, randn, todo, pc, dim, ret, given>>

ES_Turn ==
    /\ pc = "es_forward"
    /\ t = dim.T
    /\ pc' = "es_backward"
    /\ t' = dim.T - 2
    /\ UNCHANGED <<mem, shape, junk, randn, todo, dim, ll, ret, given, hist>>

ES_Backstep(m, i, n) ==
    rts_backward_step(m, Slice("A", i, n, n), n, Slice("sigma_states", i, n, n),
                      Row("smoothed_mus", i, n), Slice("smoothed_sigmas", i, n, n),
                      Row("mu_predicts", i + 1, n), Slice("sigma_predicts", i + 1, n, n),
                      Row("smoothed_mus", i + 1, n), Slice("smoothed_sigmas", i + 1, n, n),
                      Ptr("temp_nn", 0), Ptr("temp_nn2", 0))

ES_Stats(m, i, n) ==
    set_dynamics_stats(m, Row("smoothed_mus", i, n), n, Row("smoothed_mus", i + 1, n),
                       Slice("smoothed_sigmas", i + 1, n, n), Ptr("temp_nn", 0),
                       Slice("ExxnT", i, n, n))

\* The hist entries of the body of the backward loop, b being what the
\* backward step left.
ES_Events(b, i, n) ==
    <<Smoothed(b, i, n), Event("set_dynamics_stats", i, 0, [slot |-> i])>>

\* The body of the backward loop after its backward step b.
ES_WithStats(b, i, n) == [mem |-> ES_Stats(b.mem, i, n), events |-> ES_Events(b, i, n)]

ES_Sealed(b, i, n) == [mem |-> b.mem, events |-> ES_Events(b, i, n)]

\* Mutant: the statistics of step t are taken before the backward step of t.
ES_BackwardBodyStatsFirst(m, i, n) == ES_Sealed(ES_Backstep(ES_Stats(m, i, n), i, n), i, n)

\* The body of the backward loop: the memory after it and its hist entries.
ES_BackwardBody(m, i, n) == ES_WithStats(ES_Backstep(m, i, n), i, n)

ES_Backward ==
    /\ pc = "es_backward"
    /\ t >= 0
    /\ \E b \in {ES_BackwardBody(mem, t, dim.n)} :
           /\ mem' = b.mem
           /\ hist' = hist \o b.events
    /\ t' = t - 1
    /\ UNCHANGED <<shape, junk, randn, todo, pc, dim, ll, ret, given>>

ES_Return ==
    /\ pc = "es_backward"
    /\ t < 0
    /\ Return("E_step", ll,
              [mus |-> mem["smoothed_mus"], sigmas |-> mem["smoothed_sigmas"],
               ExxnT |-> mem["ExxnT"]])

(***************************************************************************)
(* filter_and_sample                                                       *)
(***************************************************************************)
\* What np.random.randn(T, n) can hand out.
Draws(len) ==
    {[i \in 1..len |-> One], [i \in 1..len |-> IF i % 2 = 1 THEN NegOne ELSE Num(2)]}

FS_MuPredict == Ptr("mu_predict", 0)
FS_SigmaPredict == Ptr("sigma_predict", 0)

FS_Alloc(m, T, p, n, z) ==
    LET m1 == AllocCopy(m, "mu_predict", "mu_init")
        m2 == AllocCopy(m1, "sigma_predict", "sigma_init")
        m3 == Alloc(m2, "temp_pp", p * p)
        m4 == Alloc(m3, "temp_pn", p * n)
        m5 == Alloc(m4, "temp_p", p)
        m6 == Alloc(m5, "temp_nn", n * n)
        m7 == Alloc(m6, "temp_n", n)
        m8 == Alloc(m7, "filtered_mus", T * n)
        m9 == Alloc(m8, "filtered_sigmas", T * n * n)
    IN  ("randseq" :> z) @@ m9

FS_Call ==
    /\ Enter("filter_and_sample")
    /\ randn' \in Draws(shape.C[1] * shape.C[3])
    /\ mem' = FS_Alloc(mem, shape.C[1], shape.C[2], shape.C[3], randn')
    /\ pc' = "fs_forward"

FS_Condition(m, i, p, n) ==
    condition_on(m, FS_MuPredict, FS_SigmaPredict,
                 Slice("C", i, p, n), p, n, Slice("sigma_obs", i, p, p), DataRow(i),
                 Row("filtered_mus", i, n), Slice("filtered_sigmas", i, n, n),
                 Ptr("temp_p", 0), Ptr("temp_pn", 0), Ptr("temp_pp", 0))

FS_Predict(m, i, n) ==
    predict(m, Row("filtered_mus", i, n), n, Slice("filtered_sigmas", i, n, n),
            Slice("A", i, n, n), Slice("sigma_states", i, n, n),
            FS_MuPredict, FS_SigmaPredict, Ptr("temp_nn", 0))

\* ll += condition_on(...)
FS_Accumulate(l, c) == LLAdd(l, c)

FS_Forward ==
    /\ pc = "fs_forward"
    /\ t < dim.T
    /\ \E c \in {FS_Condition(mem, t, dim.p, dim.n)} :
           /\ ll' = FS_Accumulate(ll, c.ll)
           /\ mem' = FS_Predict(c.mem, t, dim.n)
           /\ hist' = Append(hist, Filtered(c, t, Row("filtered_mus", t, dim.n),
                                            Slice("filtered_sigmas", t, dim.n, dim.n), dim.n))
    /\ t' = t + 1
    /\ UNCHANGED <<shape, junk, randn, todo, pc, dim, ret, given>>

FS_Sample(m, i, n) ==
    sample_gaussian(m, Row("filtered_mus", i, n), n, Slice("filtered_sigmas", i, n, n),
                    Row("randseq", i, n))

\* What a sample_gaussian leaves in hist: the belief it drew from, the
\* standard-normal vector it was given and the state it left in its place.
Drawn(m, g, i, n) ==
    Event("sample_gaussian", i, g.potrf,
          [mu |-> Vals(m, Row("filtered_mus", i, n), n),
           sigma |-> Vals(m, Slice("filtered_sigmas", i, n, n), n * n),
           z |-> Vals(m, Row("randseq", i, n), n),
           x |-> Vals(g.mem, Row("randseq", i, n), n)])

\* sample_gaussian(filtered_mus[T-1], filtered_sigmas[T-1], randseq[T-1]),
\* then for t in range(T-2,-1,-1) starts.
FS_SampleLast ==
    /\ pc = "fs_forward"
    /\ t = dim.T
    /\ \E g \in {FS_Sample(mem, dim.T - 1, dim.n)} :
           /\ mem' = g.mem
           /\ hist' = Append(hist, Drawn(mem, g, dim.T - 1, dim.n))
    /\ pc' = "fs_backward"
    /\ t' = dim.T - 2
    /\ UNCHANGED <<shape, junk, randn, todo, dim, ll, ret, given>>

\* Mutant: the pseudo-observation is the slot t of randseq.
FS_BackArgsOwnSlot(i, n) ==
    [mu_x |-> Row("filtered_mus", i, n), sigma_x |-> Slice("filtered_sigmas", i, n, n),
     C |-> Slice("A", i, n, n), sigma_obs |-> Slice("sigma_states", i, n, n),
     y |-> Row("randseq", i, n),
     mu_cond |-> Row("filtered_mus", i, n), sigma_cond |-> Slice("filtered_sigmas", i, n, n),
     temp_p |-> Ptr("temp_n", 0), temp_pn |-> Ptr("temp_nn", 0), temp_pp |-> FS_SigmaPredict]

\* The pointers of the backward condition_on: prior and posterior are the
\* same storage, A[t] and sigma_states[t] stand for C and sigma_obs, the
\* slot t+1 of randseq for y, and sigma_predict serves as temp_pp.
FS_BackArgs(i, n) ==
    [mu_x |-> Row("filtered_mus", i, n), sigma_x |-> Slice("filtered_sigmas", i, n, n),
     C |-> Slice("A", i, n, n), sigma_obs |-> Slice("sigma_states", i, n, n),
     y |-> Row("randseq", i + 1, n),
     mu_cond |-> Row("filtered_mus", i, n), sigma_cond |-> Slice("filtered_sigmas", i, n, n),
     temp_p |-> Ptr("temp_n", 0), temp_pn |-> Ptr("temp_nn", 0), temp_pp |-> FS_SigmaPredict]

FS_BackCondition(m, i, n) ==
    LET a == FS_BackArgs(i, n)
    IN  condition_on(m, a.mu_x, a.sigma_x, a.C, n, n, a.sigma_obs, a.y,
                     a.mu_cond, a.sigma_cond, a.temp_p, a.temp_pn, a.temp_pp)

\* What a backward condition_on leaves in hist: its pointers, the values it
\* read and the posterior it wrote over the prior.
Conditioned(m, c, i, n) ==
    LET a == FS_BackArgs(i, n)
    IN  Event("condition_on_next", i, c.potrf,
              [args |-> a, branch |-> c.branch, ll |-> c.ll,
               prior_mu |-> Vals(m, a.mu_x, n), prior_sigma |-> Vals(m, a.sigma_x, n * n),
               C |-> Vals(m, a.C, n * n), sigma_obs |-> Vals(m, a.sigma_obs, n * n),
               y |-> Vals(m, a.y, n),
               mu |-> Vals(c.mem, a.mu_cond, n), sigma |-> Vals(c.mem, a.sigma_cond, n * n)])

\* Mutant: the backward condition_on adds to ll as the forward one does.
FS_BackAccumulateAdded(l, c) == LLAdd(l, c)

\* The ll of the routine after the backward condition_on returned c: the
\* call is a statement, its value is dropped.
FS_BackAccumulate(l, c) == l

FS_Backward ==
    /\ pc = "fs_backward"
    /\ t >= 0
    /\ \E c \in {FS_BackCondition(mem, t, dim.n)} :
         \E g \in {FS_Sample(c.mem, t, dim.n)} :
           /\ mem' = g.mem
           /\ ll' = FS_BackAccumulate(ll, c.ll)
           /\ hist' = hist \o <<Conditioned(mem, c, t, dim.n), Drawn(c.mem, g, t, dim.n)>>
    /\ t' = t - 1
    /\ UNCHANGED <<shape, junk, randn, todo, pc, dim, ret, given>>

FS_Return ==
    /\ pc = "fs_backward"
    /\ t < 0
    /\ Return("filter_and_sample", ll, [randseq |-> mem["randseq"]])

(***************************************************************************)
(* The caller's arrays.  A model has n states and p observed coordinates;  *)
(* every time step takes one of a few kinds of slice.                      *)
(***************************************************************************)
MaxT == 3

Dims == {<<1, 1>>, <<1, 2>>, <<2, 1>>, <<2, 2>>}

\* a, q, c, r: the entries of A[t], Q[t], C[t], R[t]; y: the coordinates of
\* data[t] (the first p are used).
Kind(k) ==
    CASE k = "obs"   -> [a |-> 1, q |-> 1, c |-> 1, r |-> 1, y |-> <<Num(3), Num(1)>>]
      [] k = "miss"  -> [a |-> -1, q |-> 1, c |-> 1, r |-> 1, y |-> <<NaN, Num(1)>>]
      [] k = "part"  -> [a |-> 1, q |-> 2, c |-> 1, r |-> 1, y |-> <<Num(1), NaN>>]
      [] k = "degen" -> [a |-> 0, q |-> 0, c |-> 0, r |-> 0, y |-> <<Num(1), Num(1)>>]

Kinds == {"obs", "miss", "part", "degen"}

\* Row-major rows x cols matrix with d on the diagonal, lo below it and up
\* above it.
Mat(rows, cols, d, lo, up) ==
    [idx \in 1..rows * cols |->
        LET i == (idx - 1) \div cols
            j == (idx - 1) % cols
        IN  Num(IF i = j THEN d ELSE IF i > j THEN lo ELSE up)]

RECURSIVE Flat(_, _, _)
Flat(f, lo, hi) == IF lo > hi THEN <<>> ELSE f[lo] \o Flat(f, lo + 1, hi)

\* The arrays of a model with n states, p observed coordinates and the
\* kinds ks[1..T] of time steps; data has extra more rows than C.
Arrays(n, p, ks, extra) ==
    LET T == Len(ks)
        last == ks[T]
    IN  [mu_init      |-> [i \in 1..n |-> One],
         sigma_init   |-> Mat(n, n, 1, 0, 0),
         A            |-> Flat([i \in 1..T |-> Mat(n, n, Kind(ks[i]).a, 0, 1)], 1, T),
         sigma_states |-> Flat([i \in 1..T |-> Mat(n, n, Kind(ks[i]).q, 0, 0)], 1, T),
         C            |-> Flat([i \in 1..T |-> Mat(p, n, Kind(ks[i]).c, 1, 0)], 1, T),
         sigma_obs    |-> Flat([i \in 1..T |-> Mat(p, p, Kind(ks[i]).r, 0, 0)], 1, T),
         data         |-> Flat([i \in 1..T + extra |->
                                   SubSeq(Kind(IF i <= T THEN ks[i] ELSE last).y, 1, p)],
                               1, T + extra)]

Routines == <<"kalman_filter", "rts_smoother", "E_step", "filter_and_sample">>

\* The kinds a time step can take with p observed coordinates: a partly
\* missing observation needs a second coordinate.
KindsFor(p) == IF p > 1 THEN Kinds ELSE Kinds \ {"part"}

\* data may come with a row more than C (only tried on plain models).
ExtraFor(ks) == IF \A i \in DOMAIN ks : ks[i] = "obs" THEN {0, 1} ELSE {0}

\* The longest horizon tried with n states and p observed coordinates: one
\* step less for each dimension above one, which keeps the numerators and
\* denominators of the beliefs within TLC's integers.
Horizon(d) == MaxT + 2 - d[1] - d[2]

Init ==
    \E d \in Dims :
      \E T \in 1..Horizon(d) :
        \E ks \in [1..T -> KindsFor(d[2])] :
          \E extra \in ExtraFor(ks) :
            /\ mem = Arrays(d[1], d[2], ks, extra)
            /\ given = mem
            /\ shape = [C |-> <<T, d[2], d[1]>>, data |-> <<T + extra, d[2]>>]
            /\ junk \in {NaN}
            /\ randn = <<>>
            /\ todo = Routines
            /\ pc = "idle"
            /\ dim = [T |-> 0, p |-> 0, n |-> 0]
            /\ t = 0
            /\ ll = LLZero
            /\ ret = <<>>
            /\ hist = <<>>

Next ==
    \/ KF_Call \/ KF_Forward \/ KF_Return
    \/ RTS_Call \/ RTS_Forward \/ RTS_Turn \/ RTS_Backward \/ RTS_Return
    \/ ES_Call \/ ES_Forward \/ ES_Turn \/ ES_Backward \/ ES_Return
    \/ FS_Call \/ FS_Forward \/ FS_SampleLast \/ FS_Backward \/ FS_Return

Spec == Init /\ [][Next]_vars

(***************************************************************************)
(* A caller that, having called the four routines, changes the last slice  *)
(* of A and of sigma_states in its own arrays and calls them again.        *)
(***************************************************************************)
\* The entries (a, q) the caller may write into A[T-1] and sigma_states[T-1].
LastSlices == {<<2, 3>>, <<0, 0>>}

Rewrite ==
    /\ pc = "idle"
    /\ todo = <<>>
    /\ Len(ret) = Len(Routines)
    /\ \E w \in LastSlices :
         LET T == shape.C[1]
             n == shape.C[3]
             m1 == Store(mem, Slice("A", T - 1, n, n),
                         [o \in 0..n * n - 1 |-> Mat(n, n, w[1], 0, 1)[o + 1]])
         IN  mem' = Store(m1, Slice("sigma_states", T - 1, n, n),
                          [o \in 0..n * n - 1 |-> Mat(n, n, w[2], 0, 0)[o + 1]])
    /\ todo' = Routines
    /\ UNCHANGED <<shape, junk, randn, pc, dim, t, ll, ret, given, hist>>

NextTwice == Next \/ Rewrite

SpecTwice == Init /\ [][NextTwice]_vars

\* Every value the model computes lies in the represented field.
NoBeyond ==
    /\ \A b \in DOMAIN mem : \A i \in 1..Len(mem[b]) : mem[b][i] # Beyond
    /\ ll.fin # Beyond
    /\ \A i \in 1..Len(hist) : "ll" \in DOMAIN hist[i].val => hist[i].val.ll.fin # Beyond

(***************************************************************************)
(* Properties.                                                             *)
(***************************************************************************)
Horizon_T == shape.C[1]
Obs_p == shape.C[2]
State_n == shape.C[3]

Finished == 1..Len(ret)

\* The entries of hist that the forward pass of a finished call left.
ForwardPass(R) == SubSeq(R.hist, 1, Horizon_T)

\* Elements lo+1..lo+len of a flat array.
Part(s, lo, len) == [i \in 1..len |-> s[lo + i]]

RECURSIVE SumLL(_, _)
SumLL(es, k) == IF k = 0 THEN LLZero ELSE LLAdd(SumLL(es, k - 1), es[k].val.ll)

PotrfFailed(R) == \E j \in 1..Len(R.hist) : R.hist[j].potrf > 0

\* C1: a routine in which a Cholesky factorisation (dpotrf in condition_on,
\* sample_gaussian or rts_backward_step) reported a matrix that is not
\* positive definite ends in an error, it does not return.
CholeskyFailureIsAnError ==
    \A i \in Finished : PotrfFailed(ret[i]) => ret[i].outcome = "error"

\* C2: when data and C disagree on T the routine ends in a
\* dimension-mismatch error before any step of the forward pass runs.
DimensionMismatchIsAnError ==
    shape.data[1] # shape.C[1] =>
        /\ hist = <<>>
        /\ \A i \in Finished : ret[i].outcome = "error" /\ ret[i].hist = <<>>

\* C4: the smoothed belief at T-1 that rts_smoother and E_step return is
\* the filtered belief at T-1 their forward pass wrote: it holds throughout
\* the backward pass, no backward step is run at an index above T-2, and
\* none at all when T = 1.
LastBeliefIsFiltered ==
    /\ pc \in {"rts_backward", "es_backward"} =>
          /\ Vals(mem, Row("smoothed_mus", Horizon_T - 1, State_n), State_n)
                = hist[Horizon_T].val.mu
          /\ Vals(mem, Slice("smoothed_sigmas", Horizon_T - 1, State_n, State_n),
                  State_n * State_n) = hist[Horizon_T].val.sigma
    /\ \A i \in Finished :
          ret[i].name \in {"rts_smoother", "E_step"} =>
             /\ Part(ret[i].arrays.mus, (Horizon_T - 1) * State_n, State_n)
                   = ret[i].hist[Horizon_T].val.mu
             /\ Part(ret[i].arrays.sigmas, (Horizon_T - 1) * State_n * State_n,
                     State_n * State_n) = ret[i].hist[Horizon_T].val.sigma
             /\ \A j \in 1..Len(ret[i].hist) :
                   ret[i].hist[j].op = "rts_backward_step" =>
                      Horizon_T > 1 /\ ret[i].hist[j].t <= Horizon_T - 2

\* Witness of C4: both routines have returned from a horizon of two or more
\* steps, and the backward pass changed the belief just below the last one.
LastBeliefWitness ==
    /\ Horizon_T >= 2
    /\ Len(ret) >= 3
    /\ \A i \in 2..3 :
          /\ Part(ret[i].arrays.mus, (Horizon_T - 2) * State_n, State_n)
                # ret[i].hist[Horizon_T - 1].val.mu
          /\ Part(ret[i].arrays.mus, (Horizon_T - 1) * State_n, State_n)
                = ret[i].hist[Horizon_T].val.mu

\* C5: on the same inputs every routine returns the same total
\* log-likelihood, the sum over t = 0..T-1, in that order, of what its
\* forward condition_on returned; the backward pass adds nothing.
SameLogLikelihood ==
    \A i \in Finished :
        /\ ret[i].ll = SumLL(ForwardPass(ret[i]), Horizon_T)
        /\ ret[i].ll = ret[1].ll

\* Witness of C5: the four routines have returned a log-likelihood that is
\* not zero, and a backward condition_on of the sampler returned a value
\* that is not zero either.
SameLogLikelihoodWitness ==
    /\ Len(ret) = 4
    /\ Horizon_T >= 2
    /\ ret[4].ll # LLZero
    /\ \A i \in 1..4 : ret[i].ll = ret[1].ll
    /\ \E j \in 1..Len(ret[4].hist) :
          ret[4].hist[j].op = "condition_on_next" /\ ret[4].hist[j].val.ll # LLZero

\* C6: a routine never writes to mu_init, sigma_init, A, sigma_states, C,
\* sigma_obs or data: at every step of every call they hold what the caller
\* passed.
InputsUntouched == \A b \in InputNames : mem[b] = given[b]

\* Witness of C6: all four routines have run their in-place backward passes
\* over two or more steps and the caller's arrays are as they were.
InputsUntouchedWitness ==
    /\ Len(ret) = 4
    /\ Horizon_T >= 2
    /\ \E j \in 1..Len(ret[2].hist) : ret[2].hist[j].op = "rts_backward_step"
    /\ \E j \in 1..Len(ret[4].hist) : ret[4].hist[j].op = "sample_gaussian"
    /\ \A b \in InputNames : mem[b] = given[b]

(***************************************************************************)
(* The linear algebra of a step written out entry by entry, on row-major   *)
(* matrices as the caller sees them, for up to two dimensions.             *)
(***************************************************************************)
\* Entry (i, j), 1-based, of a row-major matrix with cols columns.
El(M, cols, i, j) == M[(i - 1) * cols + j]

RowOf(idx, cols) == ((idx - 1) \div cols) + 1
ColOf(idx, cols) == ((idx - 1) % cols) + 1

\* X Y' for X of r x k and Y of c x k.
TimesT(X, Y, r, k, c) ==
    [idx \in 1..r * c |->
        SumFn([l \in 1..k |-> Mul(El(X, k, RowOf(idx, c), l), El(Y, k, ColOf(idx, c), l))],
              1, k)]

\* X Y for X of r x k and a symmetric Y of k x k.
TimesSym(X, Y, r, k) == TimesT(X, Y, r, k, k)

Plus(X, Y) == [idx \in 1..Len(X) |-> Add(X[idx], Y[idx])]
Minus(X, Y) == [idx \in 1..Len(X) |-> Sub(X[idx], Y[idx])]

Det(V, k) == IF k = 1 THEN V[1] ELSE Sub(Mul(V[1], V[4]), Mul(V[2], V[3]))

Inverse(V, k) ==
    IF k = 1 THEN <<Div(One, V[1])>>
    ELSE <<Div(V[4], Det(V, k)), Div(Neg(V[2]), Det(V, k)),
           Div(Neg(V[3]), Det(V, k)), Div(V[1], Det(V, k))>>

\* The diagonal of the lower Cholesky factor of a symmetric V.
CholDiag(V, k) ==
    IF k = 1 THEN <<Sqrt(V[1])>> ELSE <<Sqrt(V[1]), Sqrt(Div(Det(V, k), V[1]))>>

\* The lower Cholesky factor of a symmetric V, row-major.
Chol(V, k) ==
    IF k = 1 THEN <<Sqrt(V[1])>>
    ELSE <<Sqrt(V[1]), Zero, Div(V[2], Sqrt(V[1])), Sqrt(Div(Det(V, k), V[1]))>>

\* The slices of step i (0-based) in the caller's arrays.
In_A(i) == Part(mem.A, i * State_n * State_n, State_n * State_n)
In_Q(i) == Part(mem.sigma_states, i * State_n * State_n, State_n * State_n)
In_C(i) == Part(mem.C, i * Obs_p * State_n, Obs_p * State_n)
In_R(i) == Part(mem.sigma_obs, i * Obs_p * Obs_p, Obs_p * Obs_p)
In_y(i) == Part(mem.data, i * shape.data[2], Obs_p)

\* A mu and A Sigma A' + Q.
PredictedMu(A, mu, n) == TimesT(A, mu, n, n, 1)
PredictedSigma(A, Q, Sigma, n) == Plus(Q, TimesT(TimesSym(A, Sigma, n, n), A, n, n, n))

\* The belief the forward step j (1-based) of the finished call R starts
\* from: mu_init, sigma_init, or the prediction from the belief step j-1
\* left.
PriorMu(R, j) ==
    IF j = 1 THEN mem.mu_init ELSE PredictedMu(In_A(j - 2), R.hist[j - 1].val.mu, State_n)

PriorSigma(R, j) ==
    IF j = 1 THEN mem.sigma_init
    ELSE PredictedSigma(In_A(j - 2), In_Q(j - 2), R.hist[j - 1].val.sigma, State_n)

\* The measurement update of the belief (mu, Sigma) on y under C, R:
\* S = C Sigma C' + R, K = Sigma C' S^-1, r = y - C mu.
InnovationCov(Sigma, C, R, p, n) == Plus(R, TimesT(TimesSym(C, Sigma, p, n), C, p, n, p))
Innovation(mu, C, y, p, n) == Minus(y, TimesT(C, mu, p, n, 1))
Gain(Sigma, C, R, p, n) ==
    TimesSym(TimesT(Sigma, C, n, n, p), Inverse(InnovationCov(Sigma, C, R, p, n), p), n, p)

UpdatedMu(mu, Sigma, C, R, y, p, n) ==
    Plus(mu, TimesT(Gain(Sigma, C, R, p, n), Innovation(mu, C, y, p, n), n, p, 1))

UpdatedSigma(Sigma, C, R, p, n) ==
    Minus(Sigma, TimesT(Gain(Sigma, C, R, p, n), TimesT(Sigma, C, n, n, p), n, p, n))

RECURSIVE SubLogs(_, _, _)
SubLogs(l, d, k) == IF k = 0 THEN l ELSE SubLogs(LLSubLog(l, d[k]), d, k - 1)

\* -1/2 r' S^-1 r - p/2 log(2 PI) - sum of log of the diagonal of chol(S)
UpdateLL(mu, Sigma, C, R, y, p, n) ==
    LET S == InnovationCov(Sigma, C, R, p, n)
        r == Innovation(mu, C, y, p, n)
        q == TimesT(TimesSym(r, Inverse(S, p), 1, p), r, 1, p, 1)[1]
    IN  SubLogs(LLSubLog2Pi(LLOf(Mul(Rat(-1, 2), q)), p), CholDiag(S, p), p)

\* C3: a step whose y[t][0] is NaN leaves as filtered belief the belief it
\* started from (the prediction from t-1, or mu_init, sigma_init at t = 0)
\* and returns a log-likelihood of exactly 0; a step whose y[t][0] is a
\* number takes the update, whatever the other coordinates of y[t] are: when
\* its factorisation succeeds the filtered belief and the value returned are
\* those of the measurement update.
MissingObservationSkipsUpdate ==
    \A i \in Finished : \A j \in 1..Horizon_T :
        LET e  == ret[i].hist[j]
            mu == PriorMu(ret[i], j)
            Sg == PriorSigma(ret[i], j)
            y  == In_y(j - 1)
        IN  IF IsNaN(y[1])
            THEN e.val.mu = mu /\ e.val.sigma = Sg /\ e.val.ll = LLZero
            ELSE /\ e.val.branch = "update"
                 /\ e.potrf = 0 =>
                       /\ e.val.mu = UpdatedMu(mu, Sg, In_C(j - 1), In_R(j - 1), y,
                                               Obs_p, State_n)
                       /\ e.val.sigma = UpdatedSigma(Sg, In_C(j - 1), In_R(j - 1),
                                                     Obs_p, State_n)
                       /\ e.val.ll = UpdateLL(mu, Sg, In_C(j - 1), In_R(j - 1), y,
                                              Obs_p, State_n)

\* Witness of C3: a finished call with a step after the first whose y[t][0]
\* is NaN and that left the predicted mean, and a step whose y[t][0] is a
\* number and another coordinate NaN that changed the covariance.
MissingObservationWitness ==
    \E i \in Finished : \E j \in 2..Horizon_T : \E k \in 1..Horizon_T :
        /\ IsNaN(In_y(j - 1)[1])
        /\ ret[i].hist[j].val.mu = PriorMu(ret[i], j)
        /\ ret[i].hist[j].val.ll = LLZero
        /\ ~IsNaN(In_y(k - 1)[1])
        /\ \E c \in 2..Obs_p : IsNaN(In_y(k - 1)[c])
        /\ ret[i].hist[k].potrf = 0
        /\ ret[i].hist[k].val.sigma # PriorSigma(ret[i], k)

\* The smoothing gain of step t: Sigma_f A' (A Sigma_f A' + Q)^-1.
SmoothingGain(A, Q, Sigma, n) ==
    TimesSym(TimesT(Sigma, A, n, n, n), Inverse(PredictedSigma(A, Q, Sigma, n), n), n, n)

\* C7: E_step returns T-1 matrices; its backward pass is, for t = T-2 down
\* to 0, the backward step of t followed by the one write of slot t; the
\* matrix in slot t is Sigma_s[t+1] G' + mu_s[t+1] mu_s[t]' with G the gain
\* left by the backward step of that t and mu_s, Sigma_s the returned
\* smoothed means and covariances, and that gain is the smoothing gain of
\* the filtered belief at t whenever the factorisation succeeded.
SecondMomentsFromSameStep ==
    \A i \in Finished :
        ret[i].name = "E_step" =>
            LET R == ret[i]
                n == State_n
                T == Horizon_T
            IN  /\ Len(R.arrays.ExxnT) = (T - 1) * n * n
                /\ Len(R.hist) = T + 2 * (T - 1)
                /\ \A k \in 1..T - 1 :
                      LET s    == T - 1 - k
                          b    == R.hist[T + 2 * k - 1]
                          w    == R.hist[T + 2 * k]
                          mu0  == Part(R.arrays.mus, s * n, n)
                          mu1  == Part(R.arrays.mus, (s + 1) * n, n)
                          Sg1  == Part(R.arrays.sigmas, (s + 1) * n * n, n * n)
                      IN  /\ b.op = "rts_backward_step" /\ b.t = s
                          /\ w.op = "set_dynamics_stats" /\ w.t = s /\ w.val.slot = s
                          /\ Part(R.arrays.ExxnT, s * n * n, n * n)
                                = Plus(TimesT(Sg1, b.val.gain, n, n, n),
                                       TimesT(mu1, mu0, n, 1, n))
                          /\ b.potrf = 0 =>
                                b.val.gain = SmoothingGain(In_A(s), In_Q(s),
                                                           R.hist[s + 1].val.sigma, n)

\* Witness of C7: E_step has returned from a horizon of two or more steps
\* of a two-dimensional state without a failed factorisation, and the matrix
\* it returned in slot 0 is not symmetric.
SecondMomentsWitness ==
    /\ Len(ret) >= 3
    /\ Horizon_T >= 2
    /\ State_n = 2
    /\ ~PotrfFailed(ret[3])
    /\ Len(ret[3].arrays.ExxnT) = (Horizon_T - 1) * 4
    /\ ret[3].arrays.ExxnT[2] # ret[3].arrays.ExxnT[3]
    /\ ~IsSpecial(ret[3].arrays.ExxnT[2])

\* C8: the calls of a finished filter_and_sample are, in order: the T
\* forward steps; the draw of slot T-1 from the filtered belief at T-1; then
\* for t = T-2 down to 0 the conditioning of the filtered belief at t,
\* through A[t] and sigma_states[t], on slot t+1 of randseq, which holds the
\* state the previous draw left there, and the draw of slot t from the
\* conditioned belief.  Each returned slot is the state mu + chol(Sigma) z
\* its draw made of the standard-normal z that was in the slot.
SampleBackwardOrder ==
    \A i \in Finished :
        ret[i].name = "filter_and_sample" =>
            LET R == ret[i]
                n == State_n
                T == Horizon_T
                draw(s) == R.hist[T + 1 + 2 * (T - 1 - s)]
            IN  /\ Len(R.hist) = T + 1 + 2 * (T - 1)
                /\ \A j \in 1..T : R.hist[j].op = "condition_on" /\ R.hist[j].t = j - 1
                /\ draw(T - 1).val.mu = R.hist[T].val.mu
                /\ draw(T - 1).val.sigma = R.hist[T].val.sigma
                /\ \A s \in 0..T - 1 :
                      /\ draw(s).op = "sample_gaussian" /\ draw(s).t = s
                      /\ draw(s).val.z = Part(R.randn, s * n, n)
                      /\ draw(s).val.x = Part(R.arrays.randseq, s * n, n)
                      /\ draw(s).potrf = 0 =>
                            draw(s).val.x = Plus(draw(s).val.mu,
                                                 TimesT(Chol(draw(s).val.sigma, n),
                                                        draw(s).val.z, n, n, 1))
                /\ \A s \in 0..T - 2 :
                      LET c == R.hist[T + 2 * (T - 1 - s)]
                      IN  /\ c.op = "condition_on_next" /\ c.t = s
                          /\ c.val.args.y = Row("randseq", s + 1, n)
                          /\ c.val.y = draw(s + 1).val.x
                          /\ c.val.args.C = Slice("A", s, n, n)
                          /\ c.val.C = In_A(s)
                          /\ c.val.args.sigma_obs = Slice("sigma_states", s, n, n)
                          /\ c.val.sigma_obs = In_Q(s)
                          /\ c.val.prior_mu = R.hist[s + 1].val.mu
                          /\ c.val.prior_sigma = R.hist[s + 1].val.sigma
                          /\ draw(s).val.mu = c.val.mu
                          /\ draw(s).val.sigma = c.val.sigma

\* Witness of C8: the sampler has returned from a horizon of three steps
\* without a failed factorisation and no slot holds the standard-normal
\* value it was given.
SampleBackwardWitness ==
    /\ Len(ret) = 4
    /\ Horizon_T >= 3
    /\ ~PotrfFailed(ret[4])
    /\ \A k \in 1..Len(ret[4].randn) : ret[4].arrays.randseq[k] # ret[4].randn[k]
    /\ \E j \in 1..Len(ret[4].hist) :
          ret[4].hist[j].op = "condition_on_next" /\ ret[4].hist[j].val.branch = "update"

\* condition_on on the values the backward conditioning e read, with
\* outputs and temporaries that are storage of their own.
OnDistinctBuffers(e, n) ==
    condition_on([mu_x |-> e.prior_mu, sigma_x |-> e.prior_sigma, C |-> e.C,
                  sigma_obs |-> e.sigma_obs, y |-> e.y,
                  mu_cond |-> [k \in 1..n |-> NaN], sigma_cond |-> [k \in 1..n * n |-> NaN],
                  temp_p |-> [k \in 1..n |-> NaN], temp_pn |-> [k \in 1..n * n |-> NaN],
                  temp_pp |-> [k \in 1..n * n |-> NaN]],
                 Ptr("mu_x", 0), Ptr("sigma_x", 0), Ptr("C", 0), n, n,
                 Ptr("sigma_obs", 0), Ptr("y", 0), Ptr("mu_cond", 0), Ptr("sigma_cond", 0),
                 Ptr("temp_p", 0), Ptr("temp_pn", 0), Ptr("temp_pp", 0))

\* C9: each backward conditioning of the sampler, called with mu_cond and
\* sigma_cond the storage of mu_x and sigma_x, leaves the mean and covariance
\* and returns the value that condition_on leaves and returns on the same
\* prior, C, sigma_obs and y with outputs in storage of their own.
InPlaceConditioningAgrees ==
    \A i \in Finished : \A j \in 1..Len(ret[i].hist) :
        ret[i].hist[j].op = "condition_on_next" =>
            LET e == ret[i].hist[j].val
                d == OnDistinctBuffers(e, State_n)
            IN  /\ e.args.mu_cond = e.args.mu_x
                /\ e.args.sigma_cond = e.args.sigma_x
                /\ e.mu = Vals(d.mem, Ptr("mu_cond", 0), State_n)
                /\ e.sigma = Vals(d.mem, Ptr("sigma_cond", 0), State_n * State_n)
                /\ e.ll = d.ll
                /\ e.branch = d.branch

\* Witness of C9: a finished sampler call in which an in-place conditioning
\* took the update with a successful factorisation and changed both the
\* mean and the covariance.
InPlaceConditioningWitness ==
    \E i \in Finished : \E j \in 1..Len(ret[i].hist) :
        /\ ret[i].hist[j].op = "condition_on_next"
        /\ ret[i].hist[j].potrf = 0
        /\ ret[i].hist[j].val.branch = "update"
        /\ ret[i].hist[j].val.args.mu_cond = ret[i].hist[j].val.args.mu_x
        /\ ret[i].hist[j].val.mu # ret[i].hist[j].val.prior_mu
        /\ ret[i].hist[j].val.sigma # ret[i].hist[j].val.prior_sigma
        /\ State_n = 2

\* C10: a routine called again after the caller changed A[T-1] and
\* sigma_states[T-1] only returns the log-likelihood and the arrays it
\* returned the first time (the sampler when np.random.randn hands it the
\* values it handed it the first time).
LastSlicesUnread ==
    \A i \in 1..Len(Routines) :
        Len(ret) >= i + Len(Routines) =>
            LET a == ret[i]
                b == ret[i + Len(Routines)]
            IN  /\ a.name = b.name
                /\ (a.name # "filter_and_sample" \/ a.randn = b.randn) =>
                      a.ll = b.ll /\ a.arrays = b.arrays

\* Witness of C10: the four routines have returned twice from a horizon of
\* two or more steps, the second time on a changed A[T-1] and
\* sigma_states[T-1] and with the same draws, and returned the same.
LastSlicesWitness ==
    /\ Len(ret) = 2 * Len(Routines)
    /\ Horizon_T >= 2
    /\ mem.A # given.A
    /\ mem.sigma_states # given.sigma_states
    /\ \A b \in InputNames \ {"A", "sigma_states"} : mem[b] = given[b]
    /\ ret[4].randn = ret[8].randn
    /\ \A i \in 1..4 : ret[i].arrays = ret[i + 4].arrays /\ ret[i].ll = ret[i + 4].ll

=============================================================================
